---- MODULE Spec2Model ----
(***************************************************************************)
(* A model of the muxer HTTP router (package muxer: router.go, route.go,   *)
(* options.go).  Paths, templates, hosts and subrouter keys are sequences  *)
(* of one-character strings, so that prefix tests, prefix stripping and    *)
(* the regular expression built from a template are computed character by *)
(* character as the Go code computes them.                                  *)
(***************************************************************************)
EXTENDS Integers, Sequences, FiniteSets, TLC

\* routers : the Router objects, by address
\* resp    : the request last served by a ServeHTTP call and its outcome
\* ret     : the call the configuring goroutine is in, with what it returned
\* calls   : the ServeHTTP calls of the serving goroutines, step by step
VARIABLES routers, resp, ret, calls

vars == <<routers, resp, ret, calls>>

---------------------------------------------------------------------------
(* Bounds of the model.                                                    *)

\* the size of the largest configuration built: the subrouters, routes,
\* middleware entries and non-default settings of all Routers together
MaxConfig == 3

\* the largest body, in bytes, and the largest MaxRequestBodySize
MaxBody == 2

\* the number of characters after the leading "/" of the longest template
\* and of the longest path that templates are matched against
MaxTemplateLen == 3

MaxPathLen == 3

\* the statements of a handler wrapped by the recovery middleware
MaxStatements == 2

---------------------------------------------------------------------------
(* Character classes of the two regular expressions of HandleRoute.        *)

\* \w restricted to the characters the model's strings are made of
WordChars == {"a", "h", "i", "k", "1", "2"}

\* [\w-] : the characters of a parameter name (router.go:135)
NameChars == WordChars \cup {"-"}

\* [-\w.] : the characters a captured value is made of (router.go:139)
ValueChars == WordChars \cup {"-", "."}

---------------------------------------------------------------------------
(* Input domains.                                                          *)

Methods == {"GET", "POST"}

Handlers == {"h1", "h2"}

Middlewares == {"A", "B"}

DefaultNotFound == "http.NotFound"

CustomNotFound == "custom404"

NotFoundHandlers == {DefaultNotFound, CustomNotFound}

Templates ==
  { <<"/", ":", "i">>,
    <<"/", "1">> }

Hosts == { <<>>, <<"h">> }

Keys == { <<"h">>, <<"/", "a">> }

Paths ==
  { <<"/", "1">>,
    <<"/", "a">>,
    <<"/", "a", "/", "1">>,
    <<"/", "a", "/", "a", "/", "1">> }

\* A request body: has is Body != nil, len the declared ContentLength (-1 when
\* it is unknown), size the number of bytes the stream holds, readers the
\* limits of the MaxBytesReaders wrapped around the stream, innermost first.
Body(has, len, size) ==
  [has |-> has, len |-> len, size |-> size, readers |-> <<>>]

\* Body != nil with its declared ContentLength, or Body == nil
Bodies ==
  { Body(FALSE, 0, 0),
    Body(TRUE, 2, 2) }

BodyLimits == {0, 1}

Requests ==
  [Method : Methods, Host : Hosts, Path : Paths, Body : Bodies]

---------------------------------------------------------------------------
(* Strings.                                                                *)

\* strings.HasPrefix
HasPrefix(s, prefix) ==
  /\ Len(prefix) <= Len(s)
  /\ SubSeq(s, 1, Len(prefix)) = prefix

\* strings.TrimPrefix
TrimPrefix(s, prefix) ==
  IF HasPrefix(s, prefix) THEN SubSeq(s, Len(prefix) + 1, Len(s)) ELSE s

---------------------------------------------------------------------------
(* Route compilation (HandleRoute).                                        *)

\* the text a :name token is replaced by; one element of the pattern source
Group == "([-\\w.]+)"

RECURSIVE RunLength(_, _, _)
\* the number of consecutive characters of class cls in s from position j on
RunLength(s, j, cls) ==
  IF j > Len(s) \/ s[j] \notin cls THEN 0
  ELSE 1 + RunLength(s, j + 1, cls)

RECURSIVE ReplaceTokens(_, _)
\* re.ReplaceAllStringFunc(path, ...) with re = `:([\w-]+)`: every leftmost,
\* longest, non-overlapping :name is replaced by Group and its name recorded.
\* Yields [src |-> the pattern source, names |-> paramNames].
ReplaceTokens(path, j) ==
  IF j > Len(path) THEN [src |-> <<>>, names |-> <<>>]
  ELSE
    LET n == IF path[j] = ":" THEN RunLength(path, j + 1, NameChars) ELSE 0 IN
    IF n > 0
    THEN LET rest == ReplaceTokens(path, j + 1 + n) IN
         [src   |-> <<Group>> \o rest.src,
          names |-> <<SubSeq(path, j + 1, j + n)>> \o rest.names]
    ELSE LET rest == ReplaceTokens(path, j + 1) IN
         [src |-> <<path[j]>> \o rest.src, names |-> rest.names]

\* one atom of the compiled expression
Atom(kind, c) == [kind |-> kind, c |-> c, star |-> FALSE]

RECURSIVE ParseRegex(_, _, _)
\* regexp.Compile of "^" + src + "$" over the model's characters: Group is a
\* capturing group of one or more ValueChars, "." is any character, "*" repeats
\* the atom before it, every other character is itself.  A "*" right after
\* another "*" is a syntax error (invalid nested repetition operator); a "*"
\* at the very start repeats the "^", which is kept as the atom "bot".
ParseRegex(src, j, acc) ==
  IF j > Len(src) THEN [ok |-> TRUE, atoms |-> acc]
  ELSE IF src[j] = "*"
  THEN IF j > 1 /\ src[j - 1] = "*"
       THEN [ok |-> FALSE, atoms |-> <<>>]
       ELSE IF acc = <<>>
       THEN ParseRegex(src, j + 1, <<[Atom("bot", "") EXCEPT !.star = TRUE]>>)
       ELSE ParseRegex(src, j + 1,
              [acc EXCEPT ![Len(acc)] = [@ EXCEPT !.star = TRUE]])
  ELSE IF src[j] = Group
  THEN ParseRegex(src, j + 1, Append(acc, Atom("grp", "")))
  ELSE IF src[j] = "."
  THEN ParseRegex(src, j + 1, Append(acc, Atom("any", "")))
  ELSE ParseRegex(src, j + 1, Append(acc, Atom("lit", src[j])))

\* the Route value HandleRoute appends
NewRoute(method, path, handler) ==
  LET t == ReplaceTokens(path, 1) IN
  [method   |-> method,
   path     |-> ParseRegex(t.src, 1, <<>>).atoms,
   handler  |-> handler,
   params   |-> t.names,
   template |-> path]

\* whether regexp.MustCompile accepts the pattern built from the template
Compiles(path) == ParseRegex(ReplaceTokens(path, 1).src, 1, <<>>).ok

---------------------------------------------------------------------------
(* Route matching (Route.match).                                           *)

NoMatch == [ok |-> FALSE, caps |-> <<>>]

\* the capturing group taken for one that accepts every character
AcceptsAcrossSlash(a, ch) ==
  CASE a.kind = "lit" -> ch = a.c
    [] a.kind = "any" -> TRUE
    [] a.kind = "grp" -> TRUE

\* whether character ch is accepted by atom a
Accepts(a, ch) ==
  CASE a.kind = "lit" -> ch = a.c
    [] a.kind = "any" -> TRUE
    [] a.kind = "grp" -> ch \in ValueChars

RECURSIVE AtomRun(_, _, _)
\* the number of consecutive characters from position j on that atom a accepts
AtomRun(a, s, j) ==
  IF j > Len(s) \/ ~Accepts(a, s[j]) THEN 0
  ELSE 1 + AtomRun(a, s, j + 1)

RECURSIVE MatchFrom(_, _, _, _)
RECURSIVE TryLengths(_, _, _, _, _, _)

\* The leftmost-first match of atoms i.. against s from position j to the end
\* of s (the pattern is anchored by ^ and $): [ok, caps], caps the submatches of
\* the capturing groups in order.
MatchFrom(atoms, i, s, j) ==
  IF i > Len(atoms)
  THEN IF j > Len(s) THEN [ok |-> TRUE, caps |-> <<>>] ELSE NoMatch
  ELSE
    LET a    == atoms[i]
        run  == AtomRun(a, s, j)
        most == IF a.kind = "grp" \/ a.star THEN run
                ELSE IF run > 0 THEN 1 ELSE 0
        least == IF a.star THEN 0 ELSE 1
    IN  TryLengths(atoms, i, s, j, most, least)

\* greedy repetition: the longest run of atom i is tried first, then shorter ones
TryLengths(atoms, i, s, j, n, least) ==
  IF n < least THEN NoMatch
  ELSE
    LET rest == MatchFrom(atoms, i + 1, s, j + n) IN
    IF rest.ok
    THEN [ok   |-> TRUE,
          caps |-> IF atoms[i].kind = "grp"
                   THEN <<SubSeq(s, j, j + n - 1)>> \o rest.caps
                   ELSE rest.caps]
    ELSE TryLengths(atoms, i, s, j, n - 1, least)

RECURSIVE Leftmost(_, _, _)
\* the match of atoms 2.. that starts at the first position from j on where
\* there is one
Leftmost(atoms, s, j) ==
  IF j > Len(s) + 1 THEN NoMatch
  ELSE LET m == MatchFrom(atoms, 2, s, j) IN
       IF m.ok THEN m ELSE Leftmost(atoms, s, j + 1)

\* r.path.FindStringSubmatch(path): match[i+1] is caps[i+1] here.  The
\* pattern starts at the start of the path, unless its "^" is repeated by a
\* "*": zero repetitions let the match start anywhere.
FindStringSubmatch(atoms, path) ==
  IF atoms # <<>> /\ atoms[1].kind = "bot"
  THEN Leftmost(atoms, path, 1)
  ELSE MatchFrom(atoms, 1, path, 1)

\* the index of the last occurrence of name in the sequence names
LastIndex(names, name) ==
  CHOOSE i \in 1..Len(names) :
    /\ names[i] = name
    /\ \A k \in (i + 1)..Len(names) : names[k] # name

\* Route.match with params[name] = match[i]: the whole match is taken for the
\* first submatch
matchOffByOne(route, path) ==
  LET m == FindStringSubmatch(route.path, path) IN
  IF ~m.ok THEN [ok |-> FALSE, params |-> <<>>]
  ELSE [ok     |-> TRUE,
        params |-> [name \in {route.params[i] : i \in 1..Len(route.params)} |->
                      (<<path>> \o m.caps)[LastIndex(route.params, name)]]]

\* Route.match: [ok |-> FALSE] stands for the nil map; otherwise params maps
\* each parameter name to its submatch, a later duplicate name overwriting.
match(route, path) ==
  LET m == FindStringSubmatch(route.path, path) IN
  IF ~m.ok THEN [ok |-> FALSE, params |-> <<>>]
  ELSE [ok     |-> TRUE,
        params |-> [name \in {route.params[i] : i \in 1..Len(route.params)} |->
                      m.caps[LastIndex(route.params, name)]]]

---------------------------------------------------------------------------
(* The request's context and its accessors.                                *)

ParamsKey == "params"

RouteContextKey == "matched_route"

\* req.Context() of a request as it arrives: no value under either key
Background == <<>>

\* the value never stored: the context comes back as it was
WithValueDropped(ctx, key, val) == ctx

\* context.WithValue(ctx, key, val)
WithValue(ctx, key, val) ==
  [k \in DOMAIN ctx \cup {key} |-> IF k = key THEN val ELSE ctx[k]]

\* ctx.Value(key): [ok |-> FALSE] stands for nil
Value(ctx, key) ==
  IF key \in DOMAIN ctx THEN [ok |-> TRUE, v |-> ctx[key]] ELSE [ok |-> FALSE]

\* Params(req): the map stored under ParamsKey, or make(map[string]string)
Params(ctx) ==
  LET params == Value(ctx, ParamsKey) IN
  IF params.ok THEN params.v ELSE <<>>

\* CurrentRoute(req): the *Route stored under RouteContextKey, or nil
CurrentRoute(ctx) == Value(ctx, RouteContextKey)

\* the nil error
NilError == "nil"

\* the template handed out without the two checks
PathTemplateUnchecked(route) ==
  IF ~route.ok THEN [template |-> <<>>, err |-> NilError]
  ELSE [template |-> route.v.template, err |-> NilError]

\* (r *Route) PathTemplate() (string, error)
PathTemplate(route) ==
  IF ~route.ok
  THEN [template |-> <<>>, err |-> "route is nil, no template"]
  ELSE IF route.v.template = <<>>
  THEN [template |-> route.v.template, err |-> "template is empty"]
  ELSE [template |-> route.v.template, err |-> NilError]

---------------------------------------------------------------------------
(* Handlers, middleware and the responses they write.                      *)

\* One observable step of a dispatch: a middleware entering (pre) or leaving
\* (post), a route handler running, or the NotFoundHandler running; params and
\* template are what Params(req) and CurrentRoute(req) give at that point.
Event(e, id, params, template) ==
  [e |-> e, id |-> id, params |-> params, template |-> template]

\* middleware[i](handler): a handler is the sequence of the middleware wrapped
\* around it, outermost first, ending with the route's handler
Wrap(mw, handler) == <<mw>> \o handler

RECURSIVE BuildChainForward(_, _, _)
\* the middleware applied first to last: the last one ends up outermost
BuildChainForward(middleware, i, handler) ==
  IF i < 1 THEN handler
  ELSE Wrap(middleware[i], BuildChainForward(middleware, i - 1, handler))

RECURSIVE BuildChain(_, _, _)
\* for i := len(r.middleware) - 1; i >= 0; i-- { handler = r.middleware[i](handler) }
\* (i counts from Len(middleware) down to 1 here)
BuildChain(middleware, i, handler) ==
  IF i < 1 THEN handler
  ELSE BuildChain(middleware, i - 1, Wrap(middleware[i], handler))

RECURSIVE Invoke(_, _, _)
\* handler.ServeHTTP(w, req.WithContext(ctx)): each middleware does its
\* pre-processing, calls next, then does its post-processing
Invoke(handler, params, template) ==
  IF Len(handler) = 1
  THEN <<Event("handler", handler[1], params, template)>>
  ELSE <<Event("pre", handler[1], params, template)>>
         \o Invoke(Tail(handler), params, template)
         \o <<Event("post", handler[1], params, template)>>

RECURSIVE ReadThrough(_, _, _)
\* Reading a stream of size bytes to its end through the first k readers:
\* http.MaxBytesReader(w, body, limit) passes limit bytes on and fails when
\* the stream below it holds more.  n is the number of bytes read before the
\* end or the failure, err whether the read failed.
ReadThrough(readers, k, size) ==
  IF k = 0 THEN [n |-> size, err |-> FALSE]
  ELSE LET inner == ReadThrough(readers, k - 1, size) IN
       IF inner.n > readers[k] THEN [n |-> readers[k], err |-> TRUE]
       ELSE inner

\* nothing was read
NoRead == [n |-> 0, err |-> FALSE]

\* body, err := io.ReadAll(r.Body) in a handler, for a request with a body
ReadAll(body) ==
  IF body.has THEN ReadThrough(body.readers, Len(body.readers), body.size)
  ELSE NoRead

StatusOK == 200

StatusNotFound == 404

StatusMethodNotAllowed == 405

StatusRequestEntityTooLarge == 413

\* what each NotFoundHandler writes: http.NotFound, or the custom handler
NotFoundBody(h) ==
  IF h = DefaultNotFound THEN "404 page not found" ELSE "Custom 404 Page"

---------------------------------------------------------------------------
(* Dispatch (Router.ServeHTTP).                                            *)

\* the result of one ServeHTTP call
\*   status, body : what was written to the ResponseWriter
\*   events       : the handlers and middleware that ran, in order
\*   chain        : the Routers whose ServeHTTP ran, outermost first
\*   paths        : req.URL.Path as each Router of chain received it
\*   route        : index of the selected route in the last Router, 0 if none
\*   params       : the parameter map attached to the request, if any
\*   scanned      : whether the last Router's route loop ran
\*   mismatch     : methodMismatch when that loop ended
\*   read         : what the route's handler got from reading the body
\*   ctx          : the context of the request as the handlers got it
Outcome(status, body, events, r, path, route, params, scanned, mismatch, read, ctx) ==
  [status |-> status, body |-> body, events |-> events, chain |-> <<r>>,
   paths |-> <<path>>, route |-> route, params |-> params,
   scanned |-> scanned, mismatch |-> mismatch, read |-> read, ctx |-> ctx]

\* lines 212-214: the context with the parameters and the route in it
Attach(params, route) ==
  WithValue(WithValue(Background, ParamsKey, params), RouteContextKey, route)

\* the route's handler invoked as it was registered, nothing wrapped around it
HandledAsRegistered(R, r, req, i, ctx, methodMismatch) ==
  LET route == R.routes[i]
  IN  Outcome(StatusOK, route.handler,
              Invoke(<<route.handler>>, Params(ctx),
                     PathTemplate(CurrentRoute(ctx)).template), r,
              req.Path, i, Params(ctx), TRUE, methodMismatch,
              ReadAll(req.Body), ctx)

\* lines 216-222: the selected route's handler, wrapped and invoked with the
\* request that carries ctx
Handled(R, r, req, i, ctx, methodMismatch) ==
  LET route   == R.routes[i]
      handler == BuildChain(R.middleware, Len(R.middleware), <<route.handler>>)
  IN  Outcome(StatusOK, route.handler,
              Invoke(handler, Params(ctx),
                     PathTemplate(CurrentRoute(ctx)).template), r,
              req.Path, i, Params(ctx), TRUE, methodMismatch,
              ReadAll(req.Body), ctx)

\* lines 212-222: the selected route's handler, wrapped and invoked with the
\* parameters and the route in the request's context
Selected(R, r, req, i, params, methodMismatch) ==
  Handled(R, r, req, i, Attach(params, R.routes[i]), methodMismatch)

\* line 226: http.Error(w, "Method not allowed", http.StatusMethodNotAllowed)
MethodNotAllowed(r, req) ==
  Outcome(StatusMethodNotAllowed, "Method not allowed", <<>>, r,
          req.Path, 0, <<>>, TRUE, TRUE, NoRead, Background)

\* http.NotFound called whatever r.NotFoundHandler holds
NotFoundDefault(R, r, req) ==
  Outcome(StatusNotFound, NotFoundBody(DefaultNotFound),
          <<Event("notfound", DefaultNotFound, <<>>, <<>>)>>, r,
          req.Path, 0, <<>>, TRUE, FALSE, NoRead, Background)

\* the NotFoundHandler wrapped in the Router's middleware like a route handler
NotFoundWrapped(R, r, req) ==
  Outcome(StatusNotFound, NotFoundBody(R.NotFoundHandler),
          [j \in 1..Len(R.middleware) |->
             Event("pre", R.middleware[j], <<>>, <<>>)]
            \o <<Event("notfound", R.NotFoundHandler, <<>>, <<>>)>>
            \o [j \in 1..Len(R.middleware) |->
                  Event("post", R.middleware[Len(R.middleware) + 1 - j],
                        <<>>, <<>>)],
          r, req.Path, 0, <<>>, TRUE, FALSE, NoRead, Background)

\* line 230: r.NotFoundHandler.ServeHTTP(w, req), req with the context it
\* came with
NotFound(R, r, req) ==
  Outcome(StatusNotFound, NotFoundBody(R.NotFoundHandler),
          <<Event("notfound", R.NotFoundHandler, Params(Background),
                  PathTemplate(CurrentRoute(Background)).template)>>, r,
          req.Path, 0, <<>>, TRUE, FALSE, NoRead, Background)

\* the method differs and the route's pattern matches the path
MethodDiffersOnPath(route, req) ==
  route.method # req.Method /\ match(route, req.Path).ok

\* line 203: route.method != req.Method
MethodDiffers(route, req) == route.method # req.Method

\* the routes visited last to first
RangeOrderReversed(routes, k) == Len(routes) + 1 - k

\* for _, route := range r.routes: the k-th route visited
RangeOrder(routes, k) == k

RECURSIVE ScanRoutesStopAtMismatch(_, _, _, _, _)
\* the loop ended with the 405 at the first route whose method differs
ScanRoutesStopAtMismatch(rs, r, req, k, methodMismatch) ==
  LET R == rs[r] IN
  IF k > Len(R.routes) THEN NotFound(R, r, req)
  ELSE
    LET route == R.routes[k] IN
    IF MethodDiffers(route, req) THEN MethodNotAllowed(r, req)
    ELSE
      LET m == match(route, req.Path) IN
      IF ~m.ok
      THEN ScanRoutesStopAtMismatch(rs, r, req, k + 1, methodMismatch)
      ELSE Selected(R, r, req, k, m.params, methodMismatch)

RECURSIVE ScanRoutes(_, _, _, _, _)
\* lines 201-230: the loop over r.routes from its k-th iteration on, then the
\* 405 and the NotFoundHandler
ScanRoutes(rs, r, req, k, methodMismatch) ==
  LET R == rs[r] IN
  IF k > Len(R.routes)
  THEN IF methodMismatch THEN MethodNotAllowed(r, req)
       ELSE NotFound(R, r, req)
  ELSE
    LET i     == RangeOrder(R.routes, k)
        route == R.routes[i]
    IN
    IF MethodDiffers(route, req)
    THEN ScanRoutes(rs, r, req, k + 1, TRUE)
    ELSE
      LET m == match(route, req.Path) IN
      IF ~m.ok
      THEN ScanRoutes(rs, r, req, k + 1, methodMismatch)
      ELSE Selected(R, r, req, i, m.params, methodMismatch)

\* the guard with < for <=: a body of exactly the limit is turned away
TooLargeAtLimit(R, req) ==
  /\ R.MaxRequestBodySize > 0
  /\ req.Body.has
  /\ ~(req.Body.len < R.MaxRequestBodySize)

\* lines 175-182: whether the body-size guard rejects the request
TooLarge(R, req) ==
  /\ R.MaxRequestBodySize > 0
  /\ req.Body.has
  /\ ~(req.Body.len <= R.MaxRequestBodySize)

\* the request let in as it came, its body not wrapped
WithoutMaxBytesReader(R, req) == req

\* lines 175-177: the request as it goes on when the guard lets it in;
\* req.Body = http.MaxBytesReader(w, req.Body, r.MaxRequestBodySize)
WithMaxBytesReader(R, req) ==
  IF R.MaxRequestBodySize > 0 /\ req.Body.has
  THEN [req EXCEPT !.Body.readers = Append(@, R.MaxRequestBodySize)]
  ELSE req

\* line 179: http.Error(w, "Request body too large", 413)
Rejected(r, req) ==
  Outcome(StatusRequestEntityTooLarge, "Request body too large", <<>>,
          r, req.Path, 0, <<>>, FALSE, FALSE, NoRead, Background)

\* the test of the key left out: the first subrouter met gets the request
ClaimsUntested(key, req) == TRUE

\* the host case left out
ClaimsPrefixOnly(key, req) == HasPrefix(req.Path, key)

\* lines 187-193: whether the subrouter stored under key claims the request
Claims(key, req) ==
  \/ key = req.Host
  \/ HasPrefix(req.Path, key)

\* the request handed on as it came, the prefix left in place
DelegatedKeepPath(key, req) == req

\* lines 188-192: the request as handed to the claiming subrouter; only the
\* prefix case rewrites the path
Delegated(key, req) ==
  IF key = req.Host THEN req
  ELSE [req EXCEPT !.Path = TrimPrefix(req.Path, key)]

RECURSIVE ServeHTTPDelegatingFirst(_, _, _)
\* the subrouters looked at before the body-size guard
ServeHTTPDelegatingFirst(rs, r, req) ==
  LET R        == rs[r]
      claiming == {key \in DOMAIN R.subrouters : Claims(key, req)}
  IN
  IF claiming # {}
  THEN UNION { { [o EXCEPT !.chain = <<r>> \o @,
                           !.paths = <<req.Path>> \o @] :
                   o \in ServeHTTPDelegatingFirst(rs, R.subrouters[key],
                                                  Delegated(key, req)) } :
               key \in claiming }
  ELSE IF TooLarge(R, req) THEN {Rejected(r, req)}
  ELSE {ScanRoutes(rs, r, WithMaxBytesReader(R, req), 1, FALSE)}

RECURSIVE ServeHTTPOwnRoutesFirst(_, _, _)
\* the Router's own table first, the subrouters when it selects no route
ServeHTTPOwnRoutesFirst(rs, r, req) ==
  LET R == rs[r] IN
  IF TooLarge(R, req) THEN {Rejected(r, req)}
  ELSE
    LET adm      == WithMaxBytesReader(R, req)
        own      == ScanRoutes(rs, r, adm, 1, FALSE)
        claiming == {key \in DOMAIN R.subrouters : Claims(key, adm)}
    IN
    IF own.route # 0 \/ claiming = {} THEN {own}
    ELSE UNION { { [o EXCEPT !.chain = <<r>> \o @,
                             !.paths = <<req.Path>> \o @] :
                     o \in ServeHTTPOwnRoutesFirst(rs, R.subrouters[key],
                                                   Delegated(key, adm)) } :
                 key \in claiming }

RECURSIVE ServeHTTP(_, _, _)
\* The outcomes Router r's ServeHTTP can produce for req.  The range over the
\* subrouters map visits the keys in an order the Go runtime chooses per call,
\* so any claiming subrouter may be the first one met.
ServeHTTP(rs, r, req) ==
  LET R == rs[r] IN
  IF TooLarge(R, req) THEN {Rejected(r, req)}
  ELSE
    LET adm      == WithMaxBytesReader(R, req)
        claiming == {key \in DOMAIN R.subrouters : Claims(key, adm)}
    IN
    IF claiming # {}
    THEN UNION { { [o EXCEPT !.chain = <<r>> \o @,
                             !.paths = <<req.Path>> \o @] :
                     o \in ServeHTTP(rs, R.subrouters[key], Delegated(key, adm)) } :
                 key \in claiming }
    ELSE {ScanRoutes(rs, r, adm, 1, FALSE)}

---------------------------------------------------------------------------
(* The Router objects and the operations on them.                          *)

\* the arguments Use is called with
MiddlewareArgs == { <<"A">>, <<"B">>, <<"A", "B">> }

\* the method lists HandlerFuncWithMethods is called with
MethodLists == { <<"GET", "POST">> }

\* the addresses of the Routers that exist; 0 is the one NewRouter returned
Allocated == DOMAIN routers

\* what one Router holds: its routes, middleware entries, subrouters and
\* the settings that differ from NewRouter's defaults
RouterSize(R) ==
  Len(R.routes) + Len(R.middleware) + Cardinality(DOMAIN R.subrouters)
    + (IF R.NotFoundHandler # DefaultNotFound THEN 1 ELSE 0)
    + (IF R.MaxRequestBodySize # 0 THEN 1 ELSE 0)

RECURSIVE SizeOf(_, _)
SizeOf(rs, ids) ==
  IF ids = {} THEN 0
  ELSE LET r == CHOOSE x \in ids : TRUE IN
       RouterSize(rs[r]) + SizeOf(rs, ids \ {r})

\* the size of the configuration rs
ConfigSize(rs) == SizeOf(rs, DOMAIN rs)

\* the goroutines that serve requests: net/http starts one per connection
Threads == {1, 2}

\* a goroutine between two requests
Waiting == [pc |-> "waiting"]

NoCalls == [t \in Threads |-> Waiting]

NoResp == [called |-> FALSE]

NoRet == [called |-> FALSE]

\* no call is in progress: the calls are made one after the other
Idle == ~resp.called /\ ~ret.called

\* NewRouter(options...): WithNotFoundHandler and WithMaxRequestBodySize are
\* the two options; without them the fields keep http.NotFound and 0
NewRouter(notFound, maxBody) ==
  [routes             |-> <<>>,
   middleware         |-> <<>>,
   subrouters         |-> <<>>,
   NotFoundHandler    |-> notFound,
   MaxRequestBodySize |-> maxBody]

Init ==
  /\ \E notFound \in NotFoundHandlers, maxBody \in BodyLimits :
       routers = [r \in {0} |-> NewRouter(notFound, maxBody)]
  /\ resp = NoResp
  /\ ret = NoRet
  /\ calls = NoCalls

\* the Router Subrouter builds when the key is new (lines 58-62)
NewSubrouter(parent) ==
  [routes             |-> <<>>,
   middleware         |-> <<>> \o parent.middleware,
   subrouters         |-> <<>>,
   NotFoundHandler    |-> parent.NotFoundHandler,
   MaxRequestBodySize |-> 0]

\* r.subrouters[key] = child
PutSubrouter(subrouters, key, child) ==
  [k \in DOMAIN subrouters \cup {key} |->
     IF k = key THEN child ELSE subrouters[k]]

\* every call taken for the first one with its key
HasSubrouterNever(R, attrValue) == FALSE

\* line 56: _, ok := r.subrouters[attrValue]
HasSubrouter(R, attrValue) == attrValue \in DOMAIN R.subrouters

\* r.Subrouter(attrValue)
Subrouter(r, attrValue) ==
  /\ Idle
  /\ r \in Allocated
  /\ IF ~HasSubrouter(routers[r], attrValue)
     THEN LET child == Cardinality(Allocated) IN
             /\ routers' =
                  [x \in Allocated \cup {child} |->
                     IF x = child THEN NewSubrouter(routers[r])
                     ELSE IF x = r
                     THEN [routers[r] EXCEPT
                             !.subrouters = PutSubrouter(@, attrValue, child)]
                     ELSE routers[x]]
             /\ ConfigSize(routers') <= MaxConfig
             /\ ret' = [called |-> TRUE, r |-> r, key |-> attrValue,
                        child |-> child, created |-> TRUE]
     ELSE /\ routers' = routers
          /\ ret' = [called |-> TRUE, r |-> r, key |-> attrValue,
                     child |-> routers[r].subrouters[attrValue],
                     created |-> FALSE]
  /\ resp' = NoResp
  /\ UNCHANGED calls

\* the new route put in front of the others
PrependRoute(rs, r, method, path, handler) ==
  [rs EXCEPT ![r].routes = <<NewRoute(method, path, handler)>> \o @]

\* r.routes = append(r.routes, Route{...}) (lines 132-151)
AppendRoute(rs, r, method, path, handler) ==
  [rs EXCEPT ![r].routes = Append(@, NewRoute(method, path, handler))]

\* How a call of HandleRoute with a template that does not compile ends:
\* the func has no result (line 132), and regexp.MustCompile panics (line 142)
CompileFailure(r, path) ==
  [called |-> TRUE, op |-> "HandleRoute", r |-> r, path |-> path,
   results |-> <<>>, panicked |-> TRUE]

\* r.HandleRoute(method, path, handler)
HandleRoute(r, method, path, handler) ==
  /\ Idle
  /\ r \in Allocated
  /\ IF Compiles(path)
     THEN /\ routers' = AppendRoute(routers, r, method, path, handler)
          /\ ConfigSize(routers') <= MaxConfig
          /\ ret' = NoRet
     ELSE /\ routers' = routers
          /\ ret' = CompileFailure(r, path)
  /\ resp' = NoResp
  /\ UNCHANGED calls

\* r.HandlerFunc(method, path, handlerFunc): calls HandleRoute
HandlerFunc(r, method, path, handlerFunc) ==
  HandleRoute(r, method, path, handlerFunc)

\* r.Handle(method, path, handler): calls HandlerFunc with a function that
\* calls handler.ServeHTTP
Handle(r, method, path, handler) ==
  HandlerFunc(r, method, path, handler)

RECURSIVE AppendRoutes(_, _, _, _, _, _)
\* for _, method := range methods { r.HandlerFunc(method, path, handlerFunc) }
AppendRoutes(rs, r, methods, i, path, handlerFunc) ==
  IF i > Len(methods) THEN rs
  ELSE AppendRoutes(AppendRoute(rs, r, methods[i], path, handlerFunc),
                    r, methods, i + 1, path, handlerFunc)

\* r.HandlerFuncWithMethods(methods, path, handlerFunc): with a template
\* that does not compile, the first HandlerFunc call panics
HandlerFuncWithMethods(r, methods, path, handlerFunc) ==
  /\ Idle
  /\ r \in Allocated
  /\ IF Compiles(path) \/ methods = <<>>
     THEN /\ routers' = AppendRoutes(routers, r, methods, 1, path, handlerFunc)
          /\ ConfigSize(routers') <= MaxConfig
          /\ ret' = NoRet
     ELSE /\ routers' = routers
          /\ ret' = CompileFailure(r, path)
  /\ resp' = NoResp
  /\ UNCHANGED calls

\* the append reaching the subrouters of r as well, as if they shared its list
AppendMiddlewareShared(rs, r, middleware) ==
  [x \in DOMAIN rs |->
     IF x = r \/ \E key \in DOMAIN rs[r].subrouters : rs[r].subrouters[key] = x
     THEN [rs[x] EXCEPT !.middleware = @ \o middleware]
     ELSE rs[x]]

\* the append reaching the parent of r as well, as if r had its parent's list
\* and not a copy of it
AppendMiddlewareAliased(rs, r, middleware) ==
  [x \in DOMAIN rs |->
     IF x = r \/ \E key \in DOMAIN rs[x].subrouters : rs[x].subrouters[key] = r
     THEN [rs[x] EXCEPT !.middleware = @ \o middleware]
     ELSE rs[x]]

\* r.middleware = append(r.middleware, middleware...)
AppendMiddleware(rs, r, middleware) ==
  [rs EXCEPT ![r].middleware = @ \o middleware]

\* r.Use(middleware...)
Use(r, middleware) ==
  /\ Idle
  /\ r \in Allocated
  /\ routers' = AppendMiddleware(routers, r, middleware)
  /\ ConfigSize(routers') <= MaxConfig
  /\ resp' = NoResp
  /\ ret' = NoRet
  /\ UNCHANGED calls

\* r.NotFoundHandler = handler: the field is exported and assigned directly
SetNotFoundHandler(r, handler) ==
  /\ Idle
  /\ r \in Allocated
  /\ routers' = [routers EXCEPT ![r].NotFoundHandler = handler]
  /\ ConfigSize(routers') <= MaxConfig
  /\ resp' = NoResp
  /\ ret' = NoRet
  /\ UNCHANGED calls

\* one request served by the top-level Router
Serve(req) ==
  /\ Idle
  /\ \E o \in ServeHTTP(routers, 0, req) :
       resp' = [called |-> TRUE, req |-> req, out |-> o]
  /\ ret' = NoRet
  /\ UNCHANGED <<routers, calls>>

\* The call returned: the value Subrouter returned has been used, or the
\* response was sent and the request with its context is dropped.
Return ==
  /\ ~Idle
  /\ resp' = NoResp
  /\ ret' = NoRet
  /\ UNCHANGED <<routers, calls>>

Next ==
  \/ \E r \in Allocated, key \in Keys : Subrouter(r, key)
  \/ \E r \in Allocated, m \in Methods, t \in Templates, h \in Handlers :
       HandleRoute(r, m, t, h)
  \/ \E r \in Allocated, m \in Methods, t \in Templates, h \in Handlers :
       HandlerFunc(r, m, t, h)
  \/ \E r \in Allocated, m \in Methods, t \in Templates, h \in Handlers :
       Handle(r, m, t, h)
  \/ \E r \in Allocated, ms \in MethodLists, t \in Templates, h \in Handlers :
       HandlerFuncWithMethods(r, ms, t, h)
  \/ \E r \in Allocated, mws \in MiddlewareArgs : Use(r, mws)
  \/ \E r \in Allocated, h \in NotFoundHandlers : SetNotFoundHandler(r, h)
  \/ \E req \in Requests : Serve(req)
  \/ Return

Spec == Init /\ [][Next]_vars

---------------------------------------------------------------------------
(* Requests with bodies: a Router with a body-size limit, subrouters with   *)
(* limits of their own, and bodies of every declared and actual length.     *)

\* the values MaxRequestBodySize is given
BodySizeLimits == 0..MaxBody

\* Body == nil, or a body with a ContentLength from -1 (unknown) on and the
\* bytes its stream holds; the two need not agree
AllBodies ==
  {Body(FALSE, 0, 0)}
    \cup {Body(TRUE, len, size) : len \in (-1)..MaxBody, size \in 0..MaxBody}

BodyRequests ==
  [Method : {"POST"}, Host : {<<>>},
   Path : { <<"/", "1">>, <<"/", "a", "/", "1">> }, Body : AllBodies]

\* r.MaxRequestBodySize = n: the field is exported and assigned directly
SetMaxRequestBodySize(r, n) ==
  /\ Idle
  /\ r \in Allocated
  /\ routers' = [routers EXCEPT ![r].MaxRequestBodySize = n]
  /\ ConfigSize(routers') <= MaxConfig
  /\ resp' = NoResp
  /\ ret' = NoRet
  /\ UNCHANGED calls

\* NewRouter(WithMaxRequestBodySize(maxBody)), or NewRouter() for 0
InitBody ==
  /\ \E maxBody \in BodySizeLimits :
       routers = [r \in {0} |-> NewRouter(DefaultNotFound, maxBody)]
  /\ resp = NoResp
  /\ ret = NoRet
  /\ calls = NoCalls

NextBody ==
  \/ \E r \in Allocated : Subrouter(r, <<"/", "a">>)
  \/ \E r \in Allocated : HandleRoute(r, "POST", <<"/", "1">>, "h1")
  \/ \E r \in Allocated, n \in BodySizeLimits : SetMaxRequestBodySize(r, n)
  \/ \E req \in BodyRequests : Serve(req)
  \/ Return

SpecBody == InitBody /\ [][NextBody]_vars

---------------------------------------------------------------------------
(* Templates against paths: one route registered with any template over    *)
(* the characters that matter to HandleRoute, and requests for any path.   *)

\* "/" separates segments, ":" starts a token, "i" is a word character,
\* "." and "*" have a meaning of their own in a regular expression
TemplateChars == {"/", ":", "i", ".", "*"}

\* "i" and "." may be part of a captured value, "/" may not
PathChars == {"/", "i", "."}

\* the strings of at most n characters of chars
Strings(chars, n) == UNION {[1..k -> chars] : k \in 0..n}

AllTemplates == {<<"/">> \o t : t \in Strings(TemplateChars, MaxTemplateLen)}

AllPaths == {<<"/">> \o p : p \in Strings(PathChars, MaxPathLen)}

PathRequests ==
  [Method : {"GET"}, Host : {<<>>}, Path : AllPaths, Body : {Body(FALSE, 0, 0)}]

\* router := NewRouter()
InitMatch ==
  /\ routers = [r \in {0} |-> NewRouter(DefaultNotFound, 0)]
  /\ resp = NoResp
  /\ ret = NoRet
  /\ calls = NoCalls

\* one route is registered, as in each case of TestWildcardRoutes, then
\* requests are served
NextMatch ==
  \/ \E t \in AllTemplates :
       routers[0].routes = <<>> /\ HandleRoute(0, "GET", t, "h1")
  \/ \E req \in PathRequests : Serve(req)
  \/ Return

SpecMatch == InitMatch /\ [][NextMatch]_vars

---------------------------------------------------------------------------
(* What handlers read from the request: routes with and without a token,   *)
(* one with the empty template (it serves the path left when a subrouter's *)
(* prefix is the whole path), middleware, and requests that match or not.  *)

ScopeTemplates == { <<>>, <<"/", ":", "i">> }

ScopeRequests ==
  [Method : Methods, Host : {<<>>},
   Path : { <<"/", "a">>, <<"/", "1">>, <<"/", "a", "/", "1">> },
   Body : {Body(FALSE, 0, 0)}]

NextScope ==
  \/ \E r \in Allocated : Subrouter(r, <<"/", "a">>)
  \/ \E r \in Allocated, m \in Methods, t \in ScopeTemplates :
       HandleRoute(r, m, t, "h1")
  \/ \E r \in Allocated, mws \in MiddlewareArgs : Use(r, mws)
  \/ \E req \in ScopeRequests : Serve(req)
  \/ Return

SpecScope == Init /\ [][NextScope]_vars

---------------------------------------------------------------------------
(* Serving concurrently.  The configuration is built; http.ListenAndServe  *)
(* is called and does not return; from then on each serving goroutine runs *)
(* ServeHTTP on the requests it gets, a group of statements at a time,     *)
(* interleaved with the other goroutines.                                  *)

\* the configuring goroutine is in http.ListenAndServe (cmd/main.go:53)
Listening == [called |-> TRUE, op |-> "ListenAndServe"]

ConcRequests ==
  [Method : Methods, Host : {<<>>},
   Path : { <<"/", "1">>, <<"/", "a">>, <<"/", "a", "/", "1">> },
   Body : Bodies]

\* http.ListenAndServe(":8080", router)
ListenAndServe ==
  /\ Idle
  /\ ret' = Listening
  /\ UNCHANGED <<routers, resp, calls>>

\* A call of ServeHTTP in progress: req is the request as it came, cur the
\* request as it is now (its path trimmed, its body wrapped), r the Router
\* whose ServeHTTP is running, chain and paths the Routers above it and the
\* paths they received, k and mismatch the state of the route loop, i and
\* ctx the selected route and the context made for it.
NewCall(req) ==
  [pc |-> "guard", req |-> req, cur |-> req, r |-> 0, chain |-> <<>>,
   paths |-> <<>>, k |-> 0, mismatch |-> FALSE, i |-> 0, ctx |-> Background]

\* the call c ended with outcome o of its last Router
Finished(c, o) ==
  [pc |-> "done", req |-> c.req,
   out |-> [o EXCEPT !.chain = c.chain \o @, !.paths = c.paths \o @]]

\* a goroutine gets a request and calls router.ServeHTTP(w, req)
Accept(t, req) ==
  /\ ret = Listening
  /\ calls[t] = Waiting
  /\ calls' = [calls EXCEPT ![t] = NewCall(req)]
  /\ UNCHANGED <<routers, resp, ret>>

\* lines 175-182
Guard(t) ==
  LET c == calls[t]
      R == routers[c.r]
  IN  /\ c.pc = "guard"
      /\ calls' =
           [calls EXCEPT ![t] =
              IF TooLarge(R, c.cur) THEN Finished(c, Rejected(c.r, c.cur))
              ELSE [c EXCEPT !.pc = "probe",
                             !.cur = WithMaxBytesReader(R, c.cur)]]
      /\ UNCHANGED <<routers, resp, ret>>

\* lines 185-199: the first subrouter met that claims the request gets it
Probe(t) ==
  LET c        == calls[t]
      R        == routers[c.r]
      claiming == {key \in DOMAIN R.subrouters : Claims(key, c.cur)}
  IN  /\ c.pc = "probe"
      /\ IF claiming = {}
         THEN calls' = [calls EXCEPT ![t] =
                          [c EXCEPT !.pc = "scan", !.k = 1, !.mismatch = FALSE]]
         ELSE \E key \in claiming :
                calls' = [calls EXCEPT ![t] =
                            [c EXCEPT !.pc = "guard",
                                      !.r = R.subrouters[key],
                                      !.cur = Delegated(key, c.cur),
                                      !.chain = Append(@, c.r),
                                      !.paths = Append(@, c.cur.Path)]]
      /\ UNCHANGED <<routers, resp, ret>>

\* the context kept in one place for all the calls: the calls about to run
\* their handlers get the context made for call t
SelectedForAll(cs, t, i, ctx) ==
  [x \in DOMAIN cs |->
     IF x = t THEN [cs[x] EXCEPT !.pc = "handle", !.i = i, !.ctx = ctx]
     ELSE IF cs[x].pc = "handle" THEN [cs[x] EXCEPT !.ctx = ctx]
     ELSE cs[x]]

\* lines 212-214: ctx is a local of the call, as are route and params
SelectedFor(cs, t, i, ctx) ==
  [cs EXCEPT ![t] = [@ EXCEPT !.pc = "handle", !.i = i, !.ctx = ctx]]

\* lines 202-214: one iteration of the loop over r.routes
Scan(t) ==
  LET c == calls[t]
      R == routers[c.r]
  IN  /\ c.pc = "scan"
      /\ c.k <= Len(R.routes)
      /\ LET i     == RangeOrder(R.routes, c.k)
             route == R.routes[i]
             m     == match(route, c.cur.Path)
         IN  calls' =
               IF MethodDiffers(route, c.cur)
               THEN [calls EXCEPT ![t] =
                       [c EXCEPT !.k = @ + 1, !.mismatch = TRUE]]
               ELSE IF ~m.ok
               THEN [calls EXCEPT ![t] = [c EXCEPT !.k = @ + 1]]
               ELSE SelectedFor(calls, t, i, Attach(m.params, route))
      /\ UNCHANGED <<routers, resp, ret>>

\* the selected route moved to the front of r.routes, to be found sooner
RunHandlerMovingToFront(t) ==
  LET c == calls[t]
      R == routers[c.r]
  IN  /\ c.pc = "handle"
      /\ calls' = [calls EXCEPT ![t] =
                     Finished(c, Handled(R, c.r, c.cur, c.i, c.ctx, c.mismatch))]
      /\ routers' =
           [routers EXCEPT ![c.r].routes =
              <<R.routes[c.i]>>
                \o SelectSeq(R.routes, LAMBDA x : x # R.routes[c.i])]
      /\ UNCHANGED <<resp, ret>>

\* lines 216-222: the middleware and the handler run and read the context
RunHandler(t) ==
  LET c == calls[t]
      R == routers[c.r]
  IN  /\ c.pc = "handle"
      /\ calls' = [calls EXCEPT ![t] =
                     Finished(c, Handled(R, c.r, c.cur, c.i, c.ctx, c.mismatch))]
      /\ UNCHANGED <<routers, resp, ret>>

\* lines 225-230: the loop ended with no route selected
Miss(t) ==
  LET c == calls[t]
      R == routers[c.r]
  IN  /\ c.pc = "scan"
      /\ c.k > Len(R.routes)
      /\ calls' = [calls EXCEPT ![t] =
                     Finished(c, IF c.mismatch THEN MethodNotAllowed(c.r, c.cur)
                                 ELSE NotFound(R, c.r, c.cur))]
      /\ UNCHANGED <<routers, resp, ret>>

\* ServeHTTP returned: the response is sent, the request and its context
\* are dropped
Finish(t) ==
  /\ calls[t].pc = "done"
  /\ calls' = [calls EXCEPT ![t] = Waiting]
  /\ UNCHANGED <<routers, resp, ret>>

NextConc ==
  \/ \E r \in Allocated : Subrouter(r, <<"/", "a">>)
  \/ \E r \in Allocated, tpl \in Templates : HandleRoute(r, "GET", tpl, "h1")
  \/ \E r \in Allocated : Use(r, <<"A">>)
  \/ Return /\ ret # Listening
  \/ ListenAndServe
  \/ \E t \in Threads, req \in ConcRequests : Accept(t, req)
  \/ \E t \in Threads : Guard(t)
  \/ \E t \in Threads : Probe(t)
  \/ \E t \in Threads : Scan(t)
  \/ \E t \in Threads : RunHandler(t)
  \/ \E t \in Threads : Miss(t)
  \/ \E t \in Threads : Finish(t)

SpecConc == Init /\ [][NextConc]_vars

---------------------------------------------------------------------------
(* Vocabulary of the properties.                                           *)

\* the Router whose ServeHTTP ended the dispatch recorded in resp
Server == resp.out.chain[Len(resp.out.chain)]

\* the path that Router received
ServerPath == resp.out.paths[Len(resp.out.paths)]

\* the request reached the route table of a Router: it was not rejected by a
\* body-size guard on the way
Scanned == resp.called /\ resp.out.scanned

\* the routes of Router R with method m whose pattern matches path
Candidates(R, m, path) ==
  { i \in 1..Len(R.routes) :
      R.routes[i].method = m /\ match(R.routes[i], path).ok }

\* the smallest element of a non-empty set of numbers
Least(S) == CHOOSE i \in S : \A j \in S : i <= j

\* the events of kind e in a sequence of events
EventsOf(events, e) == SelectSeq(events, LAMBDA x : x.e = e)

\* whether a template has a :name token
HasToken(template) == ReplaceTokens(template, 1).names # <<>>

---------------------------------------------------------------------------
(* C1: first-registered match wins.  For a request that reaches a Router's  *)
(* route table, the selected route is the first one in registration order   *)
(* whose method is the request's and whose pattern matches the path; its    *)
(* handler is the only handler that runs, whatever later routes match.      *)

C1_FirstRegisteredMatchWins ==
  Scanned =>
    LET R     == routers[Server]
        cands == Candidates(R, resp.req.Method, ServerPath)
        ran   == EventsOf(resp.out.events, "handler")
    IN  IF cands = {}
        THEN resp.out.route = 0 /\ ran = <<>>
        ELSE /\ resp.out.route = Least(cands)
             /\ Len(ran) = 1
             /\ ran[1].id = R.routes[Least(cands)].handler
             /\ ran[1].template = R.routes[Least(cands)].template

\* two routes match, the later one is the more specific (it has no token,
\* the earlier one has), and the earlier one ran
C1_Witness ==
  /\ Scanned
  /\ LET R     == routers[Server]
         cands == Candidates(R, resp.req.Method, ServerPath)
     IN  /\ Cardinality(cands) >= 2
         /\ \E i, j \in cands :
              /\ i < j
              /\ HasToken(R.routes[i].template)
              /\ ~HasToken(R.routes[j].template)
              /\ R.routes[i].handler # R.routes[j].handler
              /\ resp.out.route = i
              /\ resp.out.body = R.routes[i].handler

RECURSIVE Substitute(_, _, _)
\* the template from position j on with every :name token replaced by the
\* value params gives the name
Substitute(template, j, params) ==
  IF j > Len(template) THEN <<>>
  ELSE
    LET n == IF template[j] = ":"
             THEN RunLength(template, j + 1, NameChars) ELSE 0
    IN  IF n > 0
        THEN params[SubSeq(template, j + 1, j + n)]
               \o Substitute(template, j + 1 + n, params)
        ELSE <<template[j]>> \o Substitute(template, j + 1, params)

\* the names of the :name tokens of a template
TokenNames(template) ==
  LET names == ReplaceTokens(template, 1).names IN
  {names[i] : i \in 1..Len(names)}

\* the handler events of the dispatch recorded in resp that ran handler h
RanHandler(h) ==
  SelectSeq(resp.out.events, LAMBDA x : x.e = "handler" /\ x.id = h)

---------------------------------------------------------------------------
(* C2 as stated: for any route registered on the Router that scans its     *)
(* table and any request with the route's method whose path matches the    *)
(* route's template, the route's handler is invoked exactly once.          *)

---------------------------------------------------------------------------
(* C3: for a request that reaches a Router's route table and selects no    *)
(* route, if some route of that Router has a method other than the         *)
(* request's, whatever its path, the answer is 405 "Method not allowed"    *)
(* and the NotFoundHandler does not run.                                   *)

---------------------------------------------------------------------------
(* C4: for a request that reaches a Router's route table and selects no    *)
(* route, if no route of that Router has a method other than the request's *)
(* (an empty table included), the Router's NotFoundHandler answers, and    *)
(* nothing else runs: the configured one, or else the default 404          *)
(* "404 page not found".                                                   *)

C4_NotFoundHandlerAnswers ==
  Scanned /\ resp.out.route = 0 =>
    LET R == routers[Server] IN
    (\A i \in 1..Len(R.routes) : R.routes[i].method = resp.req.Method) =>
      /\ Len(resp.out.events) = 1
      /\ resp.out.events[1].e = "notfound"
      /\ resp.out.events[1].id = R.NotFoundHandler
      /\ resp.out.body = NotFoundBody(R.NotFoundHandler)
      /\ R.NotFoundHandler = DefaultNotFound =>
           /\ resp.out.status = StatusNotFound
           /\ resp.out.body = "404 page not found"

\* the handler given to WithNotFoundHandler answered for the top-level
\* Router, which has a route with the request's method that does not match
C4_Witness ==
  /\ Scanned
  /\ Server = 0
  /\ routers[0].NotFoundHandler = CustomNotFound
  /\ routers[0].routes # <<>>
  /\ resp.out.events = <<Event("notfound", CustomNotFound, <<>>, <<>>)>>
  /\ resp.out.body = "Custom 404 Page"

---------------------------------------------------------------------------
(* C5: whenever no route of the Router that scans its table matches the    *)
(* request, the NotFoundHandler runs and the response is 404; in           *)
(* particular a request for a path that matches the pattern of no          *)
(* registered route reaches the NotFoundHandler.                           *)

C5_UnknownPathReachesNotFound ==
  Scanned =>
    LET R == routers[Server] IN
    (\A i \in 1..Len(R.routes) : ~match(R.routes[i], ServerPath).ok) =>
      /\ EventsOf(resp.out.events, "notfound") # <<>>
      /\ resp.out.status = StatusNotFound

---------------------------------------------------------------------------
(* C6: middleware order.  When a route is selected, the middleware of the  *)
(* Router that owns it run around the handler in registration order: each  *)
(* one's pre-processing in the order of the list, then the handler, then   *)
(* each one's post-processing in the opposite order.                       *)

\* the events of kind e, one per middleware of the sequence, in its order
Phase(middleware, e, params, template) ==
  [i \in 1..Len(middleware) |-> Event(e, middleware[i], params, template)]

\* a sequence last to first
Reverse(seq) == [i \in 1..Len(seq) |-> seq[Len(seq) + 1 - i]]

---------------------------------------------------------------------------
(* Delegation, hop by hop: chain[n] received paths[n]; it delegated when   *)
(* chain[n+1] exists.                                                      *)

Hops == 1..Len(resp.out.chain)

\* the n-th Router of the chain
HopRouter(n) == routers[resp.out.chain[n]]

\* the n-th Router of the chain let the request past its body-size guard
Admitted(n) == n < Len(resp.out.chain) \/ resp.out.scanned

\* the n-th Router handed the request to child, with path as its new path
HandedTo(n, child, path) ==
  /\ n < Len(resp.out.chain)
  /\ resp.out.chain[n + 1] = child
  /\ resp.out.paths[n + 1] = path

\* no subrouter key of the n-th Router other than key claims the request
OnlyClaimant(n, key) ==
  \A other \in DOMAIN HopRouter(n).subrouters \ {key} :
    /\ other # resp.req.Host
    /\ ~HasPrefix(resp.out.paths[n], other)

---------------------------------------------------------------------------
(* C7 as stated: a Router that admits a request whose path is k followed   *)
(* by p, k being the key of one of its subrouters, hands the request to    *)
(* that subrouter with the path p.                                         *)

C7_PrefixChildAlwaysClaims ==
  resp.called =>
    \A n \in Hops : \A k \in DOMAIN HopRouter(n).subrouters :
      Admitted(n) /\ k # resp.req.Host /\ HasPrefix(resp.out.paths[n], k) =>
        HandedTo(n, HopRouter(n).subrouters[k], TrimPrefix(resp.out.paths[n], k))

(* C7 as amended: the same, provided no other subrouter key of that Router *)
(* equals the request's Host or is a prefix of the path.  The child        *)
(* matches its routes against p, and a nested child strips its own prefix  *)
(* from p in turn.                                                         *)

C7_PrefixDelegation ==
  resp.called =>
    \A n \in Hops : \A k \in DOMAIN HopRouter(n).subrouters :
      /\ Admitted(n)
      /\ k # resp.req.Host
      /\ HasPrefix(resp.out.paths[n], k)
      /\ OnlyClaimant(n, k)
      => /\ HandedTo(n, HopRouter(n).subrouters[k],
                     TrimPrefix(resp.out.paths[n], k))
         /\ n + 1 = Len(resp.out.chain) /\ resp.out.route # 0 =>
              LET route == HopRouter(n + 1).routes[resp.out.route] IN
              /\ match(route, TrimPrefix(resp.out.paths[n], k)).ok
              /\ resp.out.params =
                   match(route, TrimPrefix(resp.out.paths[n], k)).params

\* /a/a/1 goes through two nested subrouters keyed /a and is served as /1
\* with the parameter i = 1
C7_Witness ==
  /\ resp.called
  /\ Len(resp.out.chain) = 3
  /\ resp.out.paths = << <<"/", "a", "/", "a", "/", "1">>,
                         <<"/", "a", "/", "1">>,
                         <<"/", "1">> >>
  /\ resp.out.route # 0
  /\ resp.out.params = (<<"i">> :> <<"1">>)
  /\ resp.out.status = StatusOK

---------------------------------------------------------------------------
(* C8 as stated: a Router that admits a request whose Host equals the key  *)
(* of one of its subrouters hands the request to that subrouter, whatever  *)
(* the path, and leaves the path as it is.                                 *)

C8_HostChildAlwaysClaims ==
  resp.called =>
    \A n \in Hops : \A k \in DOMAIN HopRouter(n).subrouters :
      Admitted(n) /\ k = resp.req.Host =>
        HandedTo(n, HopRouter(n).subrouters[k], resp.out.paths[n])

(* C8 as amended: the same, provided no other subrouter key of that Router *)
(* is a prefix of the request path.                                        *)

C8_HostDelegation ==
  resp.called =>
    \A n \in Hops : \A k \in DOMAIN HopRouter(n).subrouters :
      Admitted(n) /\ k = resp.req.Host /\ OnlyClaimant(n, k) =>
        HandedTo(n, HopRouter(n).subrouters[k], resp.out.paths[n])

\* the subrouter keyed by the request's Host served a route of its own for
\* the path as the request carried it, next to a sibling keyed by a prefix
C8_Witness ==
  /\ resp.called
  /\ resp.req.Host = <<"h">>
  /\ DOMAIN routers[0].subrouters = {<<"h">>, <<"/", "a">>}
  /\ resp.out.chain = <<0, routers[0].subrouters[<<"h">>]>>
  /\ resp.out.paths = <<resp.req.Path, resp.req.Path>>
  /\ resp.out.route # 0

---------------------------------------------------------------------------
(* C9: snapshot.  A subrouter starts with the middleware list and the      *)
(* NotFoundHandler its parent has when it is created.  A later change of a *)
(* Router's middleware list or NotFoundHandler changes neither of them in  *)
(* any other Router, and every request served by one of its subrouters has *)
(* the outcomes it had before.                                             *)

\* the subrouters of Router r in configuration rs
Children(rs, r) == {rs[r].subrouters[key] : key \in DOMAIN rs[r].subrouters}

\* the settings a subrouter copies from its parent
Inherited(R) ==
  [middleware |-> R.middleware, NotFoundHandler |-> R.NotFoundHandler]

C9_Step ==
  /\ \A c \in DOMAIN routers' \ DOMAIN routers :
       \E parent \in DOMAIN routers :
         /\ c \in Children(routers', parent)
         /\ Inherited(routers'[c]) = Inherited(routers[parent])
  /\ \A parent \in DOMAIN routers :
       Inherited(routers'[parent]) # Inherited(routers[parent]) =>
         /\ \A c \in DOMAIN routers \ {parent} :
              Inherited(routers'[c]) = Inherited(routers[c])
         /\ \A c \in Children(routers, parent) : \A req \in Requests :
              ServeHTTP(routers', c, req) = ServeHTTP(routers, c, req)

C9_Snapshot == [][C9_Step]_vars

\* a subrouter made before its parent got a middleware and another
\* NotFoundHandler answers a request with the NotFoundHandler it was made with
C9_Witness ==
  /\ resp.called
  /\ Len(resp.out.chain) = 2
  /\ LET parent == routers[resp.out.chain[1]]
         child  == routers[resp.out.chain[2]]
     IN  /\ parent.middleware # <<>>
         /\ child.middleware = <<>>
         /\ parent.NotFoundHandler = CustomNotFound
         /\ child.NotFoundHandler = DefaultNotFound
         /\ resp.out.events = <<Event("notfound", DefaultNotFound, <<>>, <<>>)>>

---------------------------------------------------------------------------
(* C10: Subrouter(key) is get-or-create.  For a key the Router does not    *)
(* have, it makes a new Router with no routes and no subrouters and stores *)
(* it under the key; for a key it has, it returns the Router stored under  *)
(* the key and changes nothing.  No Router is stored under two keys.       *)

C10_Step ==
  ret'.called =>
    LET parent == ret'.r
        key    == ret'.key
        child  == ret'.child
    IN  IF key \in DOMAIN routers[parent].subrouters
        THEN /\ ~ret'.created
             /\ child = routers[parent].subrouters[key]
             /\ routers' = routers
        ELSE /\ ret'.created
             /\ child \notin DOMAIN routers
             /\ routers'[child].routes = <<>>
             /\ routers'[child].subrouters = <<>>
             /\ routers'[parent].subrouters =
                  PutSubrouter(routers[parent].subrouters, key, child)
             /\ \A x \in DOMAIN routers \ {parent} : routers'[x] = routers[x]
             /\ \A x \in DOMAIN routers : child \notin Children(routers, x)

C10_GetOrCreate == [][C10_Step]_vars

\* a second call with the key returned the child the first call made, with
\* the route registered on it in between
C10_Witness ==
  /\ ret.called
  /\ ~ret.created
  /\ routers[ret.child].routes # <<>>
  /\ routers[ret.r].subrouters[ret.key] = ret.child

---------------------------------------------------------------------------
(* The recovery middleware (middleware/recovery.go).  The wrapped handler  *)
(* is a list of statements on the http.ResponseWriter, the last of which   *)
(* may be a panic.                                                         *)

StatusInternalServerError == 500

NilLogger == "nil"

Loggers == {NilLogger, "mockLogger"}

\* what the wrapped handler may do: w.WriteHeader(code), w.Write(b),
\* panic(v) with a value that is not nil
WriteHeaderStmt(code) == [do |-> "WriteHeader", code |-> code]

WriteStmt == [do |-> "Write"]

PanicStmt == [do |-> "panic", v |-> "unexpected error"]

Statements == {WriteHeaderStmt(StatusOK), WriteHeaderStmt(StatusNotFound),
               WriteStmt, PanicStmt}

\* nothing of a handler runs after its panic
WrappedHandlers ==
  {h \in UNION {[1..n -> Statements] : n \in 0..MaxStatements} :
     \A k \in 1..Len(h) : h[k] = PanicStmt => k = Len(h)}

\* httptest.NewRecorder(): no header written, Code 200, nothing in the body
NewRecorder == [wroteHeader |-> FALSE, Code |-> StatusOK, written |-> 0]

\* w.WriteHeader(code): only the first call sets the status
WriteHeader(w, code) ==
  IF w.wroteHeader THEN w
  ELSE [w EXCEPT !.wroteHeader = TRUE, !.Code = code]

\* w.Write(b): writes the header with 200 first if none was written
Write(w) ==
  [WriteHeader(w, StatusOK) EXCEPT !.written = @ + 1]

\* debug.Stack()
Stack == "stack"

\* recoveryHandler.log(err) (lines 59-76): the lines logged and where
log(rh, v) ==
  LET to == IF rh.logger # NilLogger THEN rh.logger ELSE "log"
  IN  <<[to |-> to, v |-> v]>>
        \o (IF rh.printStack THEN <<[to |-> to, v |-> Stack]>> ELSE <<>>)

\* RecoveryHandler(logger, printStack)(next) (lines 42-46)
RecoveryHandler(logger, printStack, next) ==
  [handler |-> next, logger |-> logger, printStack |-> printStack]

\* RecoveryHandler(logger, printStack)(next).ServeHTTP(rec, req) is called:
\* the deferred function is registered and next.ServeHTTP begins (48-56)
RecoveryServeHTTP(logger, printStack, next) ==
  /\ Idle
  /\ ret' = [called |-> TRUE, op |-> "recoveryHandler.ServeHTTP",
             rh |-> RecoveryHandler(logger, printStack, next),
             pc |-> 1, returned |-> FALSE, panicked |-> FALSE,
             propagated |-> FALSE]
  /\ resp' = [called |-> TRUE, w |-> NewRecorder, logs |-> <<>>]
  /\ UNCHANGED <<routers, calls>>

\* the next statement of the wrapped handler; a panic runs the deferred
\* function (lines 49-54), whose recover() ends the panic, and ServeHTTP
\* returns to its caller
Statement ==
  /\ ~Idle
  /\ ~ret.returned
  /\ ret.pc <= Len(ret.rh.handler)
  /\ LET stmt == ret.rh.handler[ret.pc]
     IN  CASE stmt.do = "WriteHeader" ->
                /\ resp' = [resp EXCEPT !.w = WriteHeader(@, stmt.code)]
                /\ ret' = [ret EXCEPT !.pc = @ + 1]
           [] stmt.do = "Write" ->
                /\ resp' = [resp EXCEPT !.w = Write(@)]
                /\ ret' = [ret EXCEPT !.pc = @ + 1]
           [] stmt.do = "panic" ->
                /\ resp' = [resp EXCEPT
                              !.w = WriteHeader(@, StatusInternalServerError),
                              !.logs = @ \o log(ret.rh, stmt.v)]
                /\ ret' = [ret EXCEPT !.returned = TRUE, !.panicked = TRUE]
  /\ UNCHANGED <<routers, calls>>

\* the wrapped handler returns: recover() gives nil in the deferred function
HandlerReturns ==
  /\ ~Idle
  /\ ~ret.returned
  /\ ret.pc > Len(ret.rh.handler)
  /\ ret' = [ret EXCEPT !.returned = TRUE]
  /\ UNCHANGED <<routers, resp, calls>>

NextRecovery ==
  \/ \E logger \in Loggers, printStack \in BOOLEAN, next \in WrappedHandlers :
       RecoveryServeHTTP(logger, printStack, next)
  \/ Statement
  \/ HandlerReturns
  \/ Return

SpecRecovery == Init /\ [][NextRecovery]_vars

---------------------------------------------------------------------------
(* C11: body-size admission.  A Router's ServeHTTP answers 413 at          *)
(* admission if and only if its MaxRequestBodySize is above 0, the request *)
(* has a body and the declared length of the body is above the limit.  The *)
(* rejection comes before the Router looks at its subrouters and routes:   *)
(* the request goes no further and nothing is invoked.  A Router whose     *)
(* MaxRequestBodySize is 0 rejects no request.                             *)

\* the n-th Router of the chain turned the request away at its guard
RejectedAt(n) == n = Len(resp.out.chain) /\ ~resp.out.scanned

C11_BodySizeAdmission ==
  resp.called =>
    \A n \in Hops :
      LET limit == HopRouter(n).MaxRequestBodySize IN
      /\ RejectedAt(n) <=>
           (limit > 0 /\ resp.req.Body.has /\ resp.req.Body.len > limit)
      /\ RejectedAt(n) =>
           /\ resp.out.status = StatusRequestEntityTooLarge
           /\ resp.out.events = <<>>
           /\ resp.out.route = 0
      /\ ~RejectedAt(n) /\ n = Len(resp.out.chain) =>
           resp.out.status # StatusRequestEntityTooLarge
      /\ limit = 0 => ~RejectedAt(n)

\* the top-level Router turned away a request that one of its subrouters
\* claims and has a route for
C11_Witness ==
  /\ resp.called
  /\ resp.out.chain = <<0>>
  /\ RejectedAt(1)
  /\ resp.out.status = StatusRequestEntityTooLarge
  /\ \E key \in DOMAIN routers[0].subrouters :
       /\ Claims(key, resp.req)
       /\ \E o \in ServeHTTP(routers, routers[0].subrouters[key],
                              Delegated(key, resp.req)) : o.route # 0

---------------------------------------------------------------------------
(* C12: body-size boundary.  When a route is selected for a request with a *)
(* body, every Router the request went through having admitted it: the     *)
(* handler never reads more bytes than the MaxRequestBodySize N > 0 of any *)
(* of these Routers; its read fails when the body holds more than N bytes, *)
(* whatever length was declared; and a body that holds no more bytes than  *)
(* each such N, one of exactly N bytes included, is read whole without     *)
(* error.                                                                  *)

\* the limits above 0 of the Routers of the chain
ChainLimits ==
  {HopRouter(n).MaxRequestBodySize : n \in Hops} \ {0}

C12_BodySizeBoundary ==
  resp.called /\ resp.out.route # 0 /\ resp.req.Body.has =>
    LET size == resp.req.Body.size
        read == resp.out.read
    IN  /\ \A N \in ChainLimits : read.n <= N
        /\ (\E N \in ChainLimits : size > N) => read.err
        /\ (\A N \in ChainLimits : size <= N) =>
             /\ read = [n |-> size, err |-> FALSE]
             /\ resp.out.status = StatusOK

\* a body of unknown length that holds more than the limit: the handler ran
\* and its read failed after N bytes
C12_Witness ==
  /\ resp.called
  /\ resp.out.route # 0
  /\ resp.req.Body.has
  /\ resp.req.Body.len = -1
  /\ routers[0].MaxRequestBodySize > 0
  /\ resp.req.Body.size > routers[0].MaxRequestBodySize
  /\ resp.out.read = [n |-> routers[0].MaxRequestBodySize, err |-> TRUE]

---------------------------------------------------------------------------
(* Templates and the paths they stand for.                                 *)

\* the one route of the top-level Router
TheRoute == routers[0].routes[1]

\* a request was served by a top-level Router that has one route and no
\* subrouter: the route is selected if and only if Route.match succeeded
Matched == resp.called /\ Len(routers[0].routes) = 1

\* the characters with a meaning of their own in a regular expression
Special == {".", "*"}

\* the characters of a template outside its :name tokens
RECURSIVE LiteralText(_, _)
LiteralText(template, j) ==
  IF j > Len(template) THEN {}
  ELSE LET n == IF template[j] = ":"
                THEN RunLength(template, j + 1, NameChars) ELSE 0
       IN  IF n > 0 THEN LiteralText(template, j + 1 + n)
           ELSE {template[j]} \cup LiteralText(template, j + 1)

RECURSIVE Fits(_, _, _, _)
\* whether path from position k on is the template from position j on with
\* each :name token replaced by one or more of ValueChars
Fits(template, j, path, k) ==
  IF j > Len(template) THEN k > Len(path)
  ELSE LET n == IF template[j] = ":"
                THEN RunLength(template, j + 1, NameChars) ELSE 0
       IN  IF n > 0
           THEN \E len \in 1..(Len(path) - k + 1) :
                  /\ \A x \in k..(k + len - 1) : path[x] \in ValueChars
                  /\ Fits(template, j + 1 + n, path, k + len)
           ELSE /\ k <= Len(path)
                /\ path[k] = template[j]
                /\ Fits(template, j + 1, path, k + 1)

\* the token names of a template are all different
DistinctNames(template) ==
  LET names == ReplaceTokens(template, 1).names IN
  \A a, b \in 1..Len(names) : names[a] = names[b] => a = b

\* what is claimed of one template and one path: matched if and only if the
\* path is the template with values in place of the tokens, and then the
\* parameters are these values under the names of the tokens
MatchesAsTemplate(template, path) ==
  /\ resp.out.route # 0 <=> Fits(template, 1, path, 1)
  /\ resp.out.route # 0 =>
       /\ DOMAIN resp.out.params = TokenNames(template)
       /\ \A name \in DOMAIN resp.out.params :
            /\ resp.out.params[name] # <<>>
            /\ \A x \in 1..Len(resp.out.params[name]) :
                 resp.out.params[name][x] \in ValueChars
       /\ DistinctNames(template) =>
            Substitute(template, 1, resp.out.params) = path
  /\ resp.out.route = 0 => resp.out.params = <<>>

---------------------------------------------------------------------------
(* C13: wildcard routes.  A route whose template is a literal prefix       *)
(* ending in "/" followed by "*" matches every path that starts with the   *)
(* prefix, and the rest of the path, slashes included, is the parameter    *)
(* "path"; a path that does not start with the prefix does not match.      *)

\* the template is literal text followed by the wildcard segment
IsWildcard(template) ==
  /\ Len(template) >= 2
  /\ template[Len(template)] = "*"
  /\ template[Len(template) - 1] = "/"
  /\ \A j \in 1..(Len(template) - 1) : template[j] \notin Special \cup {":"}

\* the parameter name "path"
PathParam == <<"p", "a", "t", "h">>

C13_WildcardCapturesRemainder ==
  Matched /\ IsWildcard(TheRoute.template) =>
    LET prefix == SubSeq(TheRoute.template, 1, Len(TheRoute.template) - 1) IN
    /\ resp.out.route # 0 <=> HasPrefix(resp.req.Path, prefix)
    /\ resp.out.route # 0 =>
         resp.out.params = (PathParam :> TrimPrefix(resp.req.Path, prefix))

---------------------------------------------------------------------------
(* C14 as stated: for a template of literal text and :name tokens (no      *)
(* wildcard), the route matches a path if and only if the whole path is    *)
(* the template with each token replaced by a non-empty string of word     *)
(* characters, hyphens and dots; the parameters pair these strings with    *)
(* the token names, and there are none when the path does not match.       *)

---------------------------------------------------------------------------
(* C19: a call of HandleRoute with a template whose regular expression     *)
(* does not compile returns: it hands an error to its caller.              *)

C19_CompileErrorReturned ==
  ret.called /\ ret.op = "HandleRoute" /\ ~Compiles(ret.path) =>
    /\ ~ret.panicked
    /\ ret.results # <<>>

---------------------------------------------------------------------------
(* C15: request-scoped propagation.  When a route is selected, the         *)
(* parameters extracted from the path and the route are in the context of  *)
(* the request from the first middleware on: every middleware, going in    *)
(* and coming out, and the handler read the same parameters, those of      *)
(* Route.match, and CurrentRoute(req).PathTemplate() gives the template    *)
(* the route was registered with.                                          *)

---------------------------------------------------------------------------
(* C16: accessors on an unmatched request.  For a request on which no      *)
(* route matched, the one handed to the NotFoundHandler included, Params   *)
(* gives the empty mapping and CurrentRoute gives nil.  PathTemplate gives *)
(* an error, and no template, on a nil route and on a route whose template *)
(* is empty, and no error otherwise.                                       *)

C16_AccessorsOnUnmatched ==
  resp.called =>
    LET ctx   == resp.out.ctx
        route == CurrentRoute(ctx)
        got   == PathTemplate(route)
    IN  /\ resp.out.route = 0 =>
             /\ Params(ctx) = <<>>
             /\ ~route.ok
             /\ \A x \in 1..Len(resp.out.events) :
                  resp.out.events[x].params = <<>>
        /\ ~route.ok =>
             got = [template |-> <<>>, err |-> "route is nil, no template"]
        /\ route.ok /\ route.v.template = <<>> =>
             got = [template |-> <<>>, err |-> "template is empty"]
        /\ got.err = NilError <=> (route.ok /\ route.v.template # <<>>)

\* the handler given to WithNotFoundHandler ran for a request that no route
\* of a Router with routes matched, and read no parameter
C16_Witness ==
  /\ resp.called
  /\ resp.out.route = 0
  /\ routers[Server].routes # <<>>
  /\ resp.out.events = <<Event("notfound", CustomNotFound, <<>>, <<>>)>>
  /\ Params(resp.out.ctx) = <<>>
  /\ ~CurrentRoute(resp.out.ctx).ok

---------------------------------------------------------------------------
(* C17: once the configuration is finished, dispatch only reads the        *)
(* configuration of the router and of all its descendants: no step of a    *)
(* call of ServeHTTP changes any Router.                                   *)

\* this step is a step of a call of ServeHTTP
DispatchStep == calls' # calls

C17_DispatchReadsOnly == [][DispatchStep => routers' = routers]_vars

\* both goroutines served a request, one of them through a subrouter
C17_Witness ==
  /\ \A t \in Threads : calls[t].pc = "done"
  /\ \E t \in Threads : Len(calls[t].out.chain) = 2
  /\ \E t \in Threads : calls[t].out.route # 0

---------------------------------------------------------------------------
(* C18: every request dispatched concurrently with others is routed as it  *)
(* would be alone, and its handler observes the parameters and the route   *)
(* of its own request only.                                                *)

\* what the handler of the ended call c saw is what its own request gives
OwnObservations(c) ==
  c.out.route # 0 =>
    LET R     == routers[c.out.chain[Len(c.out.chain)]]
        route == R.routes[c.out.route]
        path  == c.out.paths[Len(c.out.paths)]
    IN  \A e \in 1..Len(c.out.events) :
          /\ c.out.events[e].params = match(route, path).params
          /\ c.out.events[e].template = route.template

C18_ConcurrentAsAlone ==
  \A t \in Threads :
    calls[t].pc = "done" =>
      /\ calls[t].out \in ServeHTTP(routers, 0, calls[t].req)
      /\ OwnObservations(calls[t])

\* one call ended having seen its parameters while the other, of another
\* request with other parameters, is about to run its handler
C18_Witness ==
  /\ calls[1].pc = "done"
  /\ calls[1].out.route # 0
  /\ calls[1].out.params # <<>>
  /\ calls[2].pc = "handle"
  /\ calls[2].req # calls[1].req
  /\ Params(calls[2].ctx) # calls[1].out.params

---------------------------------------------------------------------------
(* C20: when the handler wrapped by RecoveryHandler faults, the fault does *)
(* not reach the caller, it is logged through the logger (the default Go   *)
(* logger when none was supplied), the stack is logged as well if and only *)
(* if printStack is true, and the response status is 500; when the handler *)
(* does not fault, nothing is logged and the response is the handler's.    *)

\* the response the handler h makes by itself, from its statement k on
RECURSIVE Own(_, _, _)
Own(h, k, w) ==
  IF k > Len(h) THEN w
  ELSE IF h[k].do = "WriteHeader" THEN Own(h, k + 1, WriteHeader(w, h[k].code))
  ELSE IF h[k].do = "Write" THEN Own(h, k + 1, Write(w))
  ELSE w

RecoveryReturned ==
  /\ ret.called
  /\ ret.op = "recoveryHandler.ServeHTTP"
  /\ ret.returned

C20_RecoveryWrapper ==
  RecoveryReturned =>
    LET to == IF ret.rh.logger # NilLogger THEN ret.rh.logger ELSE "log"
    IN  IF ret.panicked
        THEN /\ ~ret.propagated
             /\ \E k \in 1..Len(resp.logs) :
                  resp.logs[k] = [to |-> to, v |-> PanicStmt.v]
             /\ (\E k \in 1..Len(resp.logs) : resp.logs[k].v = Stack)
                  <=> ret.rh.printStack
             /\ resp.w.Code = StatusInternalServerError
        ELSE /\ resp.logs = <<>>
             /\ resp.w = Own(ret.rh.handler, 1, NewRecorder)

---------------------------------------------------------------------------
(* The CORS middleware (middleware/cors.go).  The wrapped handler is a     *)
(* list of statements on the http.ResponseWriter, as for the recovery      *)
(* middleware.                                                             *)

MethodOptions == "OPTIONS"

CORSMethods == {"GET", "POST", MethodOptions}

\* the Origin header of the request; "" when it has none
Origins == {"", "http://example.com", "http://other.com"}

MaxAges == {0, 3600}

\* a map with the one entry k: v
Entry(k, v) == [x \in {k} |-> v]

\* the configurations the options give: WithAllowedOrigins,
\* WithAllowedMethods, WithAllowedHeaders, WithPreflightHeaders, WithMaxAge
CORSConfigs ==
  [AllowedOrigins   : {<<>>, <<"http://example.com">>},
   AllowedMethods   : {<<>>, <<"GET", "POST">>},
   AllowedHeaders   : {<<>>, Entry("X-Custom-Header-1", "")},
   PreflightHeaders : {<<>>, Entry("X-Preflight-Header", "123")},
   MaxAge           : MaxAges]

CORSRequests == [Method : CORSMethods, Origin : Origins]

\* contains(slice, s)
contains(slice, s) == \E j \in 1..Len(slice) : slice[j] = s

RECURSIVE Join(_, _)
\* strings.Join(elems, ", "), the strings kept apart as a sequence
Join(elems, j) ==
  IF j > Len(elems) THEN <<>>
  ELSE IF j = Len(elems) THEN <<elems[j]>>
  ELSE <<elems[j], ", ">> \o Join(elems, j + 1)

\* keys(m) of a map with at most one key
keys(m) == IF DOMAIN m = {} THEN <<>> ELSE <<CHOOSE x \in DOMAIN m : TRUE>>

Digit(d) ==
  CASE d = 0 -> "0" [] d = 1 -> "1" [] d = 2 -> "2" [] d = 3 -> "3"
    [] d = 4 -> "4" [] d = 5 -> "5" [] d = 6 -> "6" [] d = 7 -> "7"
    [] d = 8 -> "8" [] d = 9 -> "9"

RECURSIVE FormatInt(_)
\* strconv.FormatInt(int64(n), 10) for n >= 0, digit by digit
FormatInt(n) ==
  IF n < 10 THEN <<Digit(n)>> ELSE FormatInt(n \div 10) \o <<Digit(n % 10)>>

\* w.Header().Set(k, v)
SetHeader(header, k, v) ==
  [x \in DOMAIN header \cup {k} |-> IF x = k THEN v ELSE header[x]]

\* for k, v := range m { w.Header().Set(k, v) } for a map of at most one key
SetHeaders(header, m) ==
  IF DOMAIN m = {} THEN header
  ELSE LET x == CHOOSE y \in DOMAIN m : TRUE IN SetHeader(header, x, m[x])

\* only a request that names its origin is taken for a preflight
IsPreflightWithOrigin(req) ==
  req.Method = MethodOptions /\ req.Origin # ""

\* line 256: r.Method == http.MethodOptions
IsPreflight(req) == req.Method = MethodOptions

\* lines 237-254: the headers set for every request
CORSHeaders(cfg, req) ==
  LET h1 == SetHeader(<<>>, "Access-Control-Allow-Origin",
                      IF req.Origin # "" /\ contains(cfg.AllowedOrigins, req.Origin)
                      THEN req.Origin ELSE "*")
      h2 == IF Len(cfg.AllowedMethods) > 0
            THEN SetHeader(h1, "Access-Control-Allow-Methods",
                           Join(cfg.AllowedMethods, 1))
            ELSE h1
  IN  IF DOMAIN cfg.AllowedHeaders # {}
      THEN SetHeader(h2, "Access-Control-Allow-Headers",
                     Join(keys(cfg.AllowedHeaders), 1))
      ELSE h2

\* lines 257-262: the headers added for a preflight request
PreflightHeaders(cfg, header) ==
  SetHeaders(IF cfg.MaxAge > 0
             THEN SetHeader(header, "Access-Control-Max-Age",
                            FormatInt(cfg.MaxAge))
             ELSE header,
             cfg.PreflightHeaders)

\* whether the handler h panics
Panics(h) == h # <<>> /\ h[Len(h)] = PanicStmt

\* CORS(options...)(h).ServeHTTP(rec, req) (lines 236-267): invoked counts
\* the calls of h.ServeHTTP; a panic of h goes through to the caller
CORSServeHTTP(cfg, req, h) ==
  /\ Idle
  /\ ret' = [called |-> TRUE, op |-> "CORS", cfg |-> cfg, req |-> req,
             h |-> h, returned |-> TRUE,
             panicked |-> ~IsPreflight(req) /\ Panics(h)]
  /\ resp' =
       IF IsPreflight(req)
       THEN [called |-> TRUE,
             header |-> PreflightHeaders(cfg, CORSHeaders(cfg, req)),
             w |-> WriteHeader(NewRecorder, StatusOK), invoked |-> 0]
       ELSE [called |-> TRUE, header |-> CORSHeaders(cfg, req),
             w |-> Own(h, 1, NewRecorder), invoked |-> 1]
  /\ UNCHANGED <<routers, calls>>

NextCORS ==
  \/ \E cfg \in CORSConfigs, req \in CORSRequests, h \in WrappedHandlers :
       CORSServeHTTP(cfg, req, h)
  \/ Return

SpecCORS == Init /\ [][NextCORS]_vars

---------------------------------------------------------------------------
(* C21: the CORS wrapper answers every OPTIONS request with status 200 and *)
(* does not invoke the wrapped handler; for every other method it invokes  *)
(* the wrapped handler exactly once.                                       *)

CORSReturned == ret.called /\ ret.op = "CORS" /\ ret.returned

C21_CORSShortCircuit ==
  CORSReturned =>
    IF ret.req.Method = MethodOptions
    THEN /\ resp.invoked = 0
         /\ resp.w = [wroteHeader |-> TRUE, Code |-> StatusOK, written |-> 0]
         /\ ~ret.panicked
    ELSE /\ resp.invoked = 1
         /\ resp.w = Own(ret.h, 1, NewRecorder)

\* an OPTIONS request without an Origin header, around a handler that would
\* have answered 404
C21_Witness ==
  /\ CORSReturned
  /\ ret.req = [Method |-> MethodOptions, Origin |-> ""]
  /\ ret.h = <<WriteHeaderStmt(StatusNotFound), WriteStmt>>
  /\ resp.invoked = 0
  /\ resp.w.Code = StatusOK

---------------------------------------------------------------------------
(* C22: delegation comes before the Router's own table and is exclusive.   *)
(* A Router that admits a request hands it to exactly one subrouter when   *)
(* some subrouter key equals the Host or is a prefix of the path, and the  *)
(* outcome is then that subrouter's, its 404 or 405 included, whatever the *)
(* Router's own routes match; it scans its own table if and only if no     *)
(* subrouter claims the request.                                           *)

\* the subrouter keys of the n-th Router that claim the request it received
Claimants(n) ==
  { key \in DOMAIN HopRouter(n).subrouters :
      key = resp.req.Host \/ HasPrefix(resp.out.paths[n], key) }

\* the request as the top-level Router handed it to the second of the chain
SecondRequest ==
  [WithMaxBytesReader(routers[0], resp.req) EXCEPT !.Path = resp.out.paths[2]]

C22_DelegationExclusive ==
  resp.called =>
    /\ \A n \in Hops :
         /\ n < Len(resp.out.chain) =>
              \E key \in Claimants(n) :
                /\ HopRouter(n).subrouters[key] = resp.out.chain[n + 1]
                /\ resp.out.paths[n + 1] =
                     IF key = resp.req.Host THEN resp.out.paths[n]
                     ELSE TrimPrefix(resp.out.paths[n], key)
         /\ n = Len(resp.out.chain) =>
              IF resp.out.scanned THEN Claimants(n) = {}
              ELSE resp.out.status = StatusRequestEntityTooLarge
    /\ Len(resp.out.chain) >= 2 =>
         [resp.out EXCEPT !.chain = Tail(@), !.paths = Tail(@)]
           \in ServeHTTP(routers, resp.out.chain[2], SecondRequest)
    /\ resp.out.route # 0 =>
         resp.out.body = routers[Server].routes[resp.out.route].handler

\* the subrouter answered 404 or 405 though a route of its parent has the
\* request's method and matches the path
C22_Witness ==
  /\ resp.called
  /\ Len(resp.out.chain) = 2
  /\ resp.out.status \in {StatusNotFound, StatusMethodNotAllowed}
  /\ Candidates(routers[0], resp.req.Method, resp.req.Path) # {}

---------------------------------------------------------------------------
(* C23: the middleware chain is built when the request is dispatched, from *)
(* the list as it is then.  The chain around a selected handler is made of *)
(* the entries of the middleware list of the Router that owns the route,   *)
(* each once and nothing else, whatever the lists of the Routers above it  *)
(* hold; a call of Use leaves the routes as they are, and the routes the   *)
(* Router already has are served with the middleware it added.             *)

\* the middleware that ran in phase e of an outcome, in the order they ran
Ran(o, e) ==
  LET evs == EventsOf(o.events, e) IN [j \in 1..Len(evs) |-> evs[j].id]

\* the outcome o has the chain of the list middleware around one handler
ChainOf(o, middleware) ==
  /\ Ran(o, "pre") = middleware
  /\ Ran(o, "post") = Reverse(middleware)
  /\ Len(o.events) = 2 * Len(middleware) + 1

C23_Step ==
  /\ resp'.called /\ resp'.out.route # 0 =>
       ChainOf(resp'.out,
               routers'[resp'.out.chain[Len(resp'.out.chain)]].middleware)
  /\ \A r \in DOMAIN routers :
       routers'[r].middleware # routers[r].middleware =>
         /\ routers'[r].routes = routers[r].routes
         /\ \A req \in Requests : \A o \in ServeHTTP(routers', r, req) :
              Len(o.chain) = 1 /\ o.route # 0 =>
                ChainOf(o, routers'[r].middleware)

C23_ChainBuiltAtDispatch == [][C23_Step]_vars

\* the route of a subrouter served with the subrouter's own list, which is
\* not the list its parent has
C23_Witness ==
  /\ resp.called
  /\ resp.out.route # 0
  /\ Len(resp.out.chain) = 2
  /\ routers[0].middleware # routers[Server].middleware
  /\ Ran(resp.out, "pre") = routers[Server].middleware

---------------------------------------------------------------------------
(* Registrations one after the other, on a Router and on its subrouters,   *)
(* with templates that compile and one that does not.                      *)

RegisterTemplates == Templates \cup { <<"/", "*", "*">> }

NextRegister ==
  \/ \E r \in Allocated : Subrouter(r, <<"/", "a">>)
  \/ \E r \in Allocated, m \in Methods, t \in RegisterTemplates,
        h \in Handlers : HandleRoute(r, m, t, h)
  \/ \E r \in Allocated, m \in Methods, t \in RegisterTemplates,
        h \in Handlers : HandlerFunc(r, m, t, h)
  \/ \E r \in Allocated, m \in Methods, t \in RegisterTemplates,
        h \in Handlers : Handle(r, m, t, h)
  \/ \E r \in Allocated, ms \in MethodLists, t \in RegisterTemplates,
        h \in Handlers : HandlerFuncWithMethods(r, ms, t, h)
  \/ Return

SpecRegister == Init /\ [][NextRegister]_vars

\* the sequence s is the beginning of the sequence t
IsPrefix(s, t) == Len(s) <= Len(t) /\ SubSeq(t, 1, Len(s)) = s

\* Router r got the routes added at the end of its list and no other Router
\* got any
Registered(r, added) ==
  /\ routers'[r].routes = routers[r].routes \o added
  /\ \A x \in DOMAIN routers \ {r} : routers'[x].routes = routers[x].routes

\* the routes of one call: one per method, with the template and the handler
RoutesOf(ms, t, h) == [j \in 1..Len(ms) |-> NewRoute(ms[j], t, h)]

\* no step removes, moves or changes a route a Router has
RoutesKept ==
  \A r \in DOMAIN routers : IsPrefix(routers[r].routes, routers'[r].routes)

---------------------------------------------------------------------------
(* C24 as stated: registration only appends.  Every call of Handle,        *)
(* HandlerFunc or HandleRoute adds one route at the end of the Router's    *)
(* route list, every call of HandlerFuncWithMethods one route per method   *)
(* of its list in the order of the list; no step removes, moves or changes *)
(* a route a Router has.                                                   *)

C24_EveryCallStep ==
  /\ RoutesKept
  /\ \A r \in DOMAIN routers, m \in Methods, t \in RegisterTemplates,
        h \in Handlers :
       /\ HandleRoute(r, m, t, h) => Registered(r, RoutesOf(<<m>>, t, h))
       /\ HandlerFunc(r, m, t, h) => Registered(r, RoutesOf(<<m>>, t, h))
       /\ Handle(r, m, t, h) => Registered(r, RoutesOf(<<m>>, t, h))
  /\ \A r \in DOMAIN routers, ms \in MethodLists, t \in RegisterTemplates,
        h \in Handlers :
       HandlerFuncWithMethods(r, ms, t, h) => Registered(r, RoutesOf(ms, t, h))

C24_EveryCallAppends == [][C24_EveryCallStep]_vars

(* C24 as amended: the same for the calls whose template compiles.  A call *)
(* whose template does not compile adds no route.                          *)

C24_Step ==
  /\ RoutesKept
  /\ \A r \in DOMAIN routers, m \in Methods, t \in RegisterTemplates,
        h \in Handlers :
       LET added == IF Compiles(t) THEN RoutesOf(<<m>>, t, h) ELSE <<>>
       IN  /\ HandleRoute(r, m, t, h) => Registered(r, added)
           /\ HandlerFunc(r, m, t, h) => Registered(r, added)
           /\ Handle(r, m, t, h) => Registered(r, added)
  /\ \A r \in DOMAIN routers, ms \in MethodLists, t \in RegisterTemplates,
        h \in Handlers :
       HandlerFuncWithMethods(r, ms, t, h) =>
         Registered(r, IF Compiles(t) THEN RoutesOf(ms, t, h) ELSE <<>>)

C24_RegistrationAppends == [][C24_Step]_vars

\* a route registered with Handle, then two with HandlerFuncWithMethods
C24_Witness ==
  \E r \in DOMAIN routers :
    routers[r].routes =
      << NewRoute("POST", <<"/", "1">>, "h2"),
         NewRoute("GET", <<"/", ":", "i">>, "h1"),
         NewRoute("POST", <<"/", ":", "i">>, "h1") >>

---------------------------------------------------------------------------
(* Faults under a Router.  The route's handler is a list of statements     *)
(* that may end in a panic; the middleware are the recovery wrapper, a     *)
(* middleware that panics before it calls the next handler, and one that   *)
(* only calls it.                                                          *)

Recovery == "Recovery"

Faulty == "Faulty"

FaultMiddlewares == {Recovery, Faulty, "A"}

\* the wrapper registered: middleware.RecoveryHandler(mockLogger, false)
Installed == RecoveryHandler("mockLogger", FALSE, <<>>)

FaultRequests ==
  [Method : {"GET"}, Host : {<<>>}, Path : { <<"/", "1">>, <<"/", "a">> },
   Body : {Body(FALSE, 0, 0)}]

RECURSIVE RunChain(_, _, _, _)
\* handler.ServeHTTP(w, req) for the chain of router.go:216-219 from its k-th
\* middleware on, around the handler h: the response, the lines logged,
\* whether a panic was raised and whether one leaves this part of the chain
RunChain(middleware, k, h, w) ==
  IF k > Len(middleware)
  THEN [w |-> Own(h, 1, w), logs |-> <<>>, raised |-> Panics(h),
        panicking |-> Panics(h)]
  ELSE IF middleware[k] = Faulty
  THEN [w |-> w, logs |-> <<>>, raised |-> TRUE, panicking |-> TRUE]
  ELSE LET next == RunChain(middleware, k + 1, h, w) IN
       IF middleware[k] = Recovery /\ next.panicking
       THEN [next EXCEPT !.w = WriteHeader(@, StatusInternalServerError),
                         !.logs = @ \o log(Installed, PanicStmt.v),
                         !.panicking = FALSE]
       ELSE next

\* one request served by the top-level Router, whose ServeHTTP selects the
\* route as for any request and calls the chain; route is the route selected,
\* run what the chain did
ServeFault(req) ==
  /\ Idle
  /\ \E o \in ServeHTTP(routers, 0, req) :
       resp' = [called |-> TRUE, req |-> req, route |-> o.route,
                run |-> IF o.route = 0 THEN <<>>
                        ELSE RunChain(routers[0].middleware, 1,
                                      routers[0].routes[o.route].handler,
                                      NewRecorder)]
  /\ ret' = NoRet
  /\ UNCHANGED <<routers, calls>>

NextFault ==
  \/ \E mw \in FaultMiddlewares : Use(0, <<mw>>)
  \/ \E h \in WrappedHandlers :
       routers[0].routes = <<>> /\ HandleRoute(0, "GET", <<"/", "1">>, h)
  \/ \E req \in FaultRequests : ServeFault(req)
  \/ Return

SpecFault == Init /\ [][NextFault]_vars

---------------------------------------------------------------------------
(* C25: with a recovery wrapper registered on a Router with Use, a fault   *)
(* raised in the selected handler or in a middleware of the Router's chain *)
(* becomes a logged 500 response and does not reach the caller of          *)
(* ServeHTTP; with no recovery wrapper it reaches the caller.              *)

C25_FaultConverted ==
  resp.called /\ resp.route # 0 /\ resp.run.raised =>
    IF \E k \in 1..Len(routers[0].middleware) :
         routers[0].middleware[k] = Recovery
    THEN /\ ~resp.run.panicking
         /\ resp.run.w.Code = StatusInternalServerError
         /\ resp.run.logs # <<>>
    ELSE resp.run.panicking

---------------------------------------------------------------------------
(* C26: every dispatch ends in exactly one of four ways: the 413 of a      *)
(* body-size guard, the chain of a selected route invoked once, the 405,   *)
(* or the NotFoundHandler invoked once.  The 405 and the NotFoundHandler   *)
(* come only when no route of the serving Router has the request's method  *)
(* and matches the path, and a route selected after a route with another   *)
(* method is served, not answered with 405.                                *)

\* the number of the conditions of a set that hold
CountTrue(conds) == Cardinality({j \in DOMAIN conds : conds[j]})

EndedRejected ==
  /\ resp.out.status = StatusRequestEntityTooLarge
  /\ resp.out.events = <<>>
  /\ ~resp.out.scanned

EndedSelected ==
  /\ resp.out.route # 0
  /\ Len(EventsOf(resp.out.events, "handler")) = 1
  /\ EventsOf(resp.out.events, "notfound") = <<>>
  /\ resp.out.status \notin {StatusRequestEntityTooLarge, StatusMethodNotAllowed}

EndedMethodNotAllowed ==
  /\ resp.out.status = StatusMethodNotAllowed
  /\ resp.out.events = <<>>
  /\ resp.out.route = 0
  /\ resp.out.scanned

EndedNotFound ==
  /\ resp.out.events =
       <<Event("notfound", routers[Server].NotFoundHandler, <<>>, <<>>)>>
  /\ resp.out.route = 0
  /\ resp.out.scanned
  /\ resp.out.status \notin {StatusRequestEntityTooLarge, StatusMethodNotAllowed}

C26_FourOutcomes ==
  resp.called =>
    /\ CountTrue(<<EndedRejected, EndedSelected, EndedMethodNotAllowed,
                   EndedNotFound>>) = 1
    /\ EndedMethodNotAllowed \/ EndedNotFound =>
         Candidates(routers[Server], resp.req.Method, ServerPath) = {}
    /\ Candidates(routers[Server], resp.req.Method, ServerPath) # {}
         /\ resp.out.scanned => EndedSelected

\* a route with another method came first in the scan, and the route after
\* it was selected
C26_Witness ==
  /\ resp.called
  /\ resp.out.route > 1
  /\ resp.out.mismatch
  /\ routers[Server].routes[1].method # resp.req.Method
  /\ EndedSelected

---------------------------------------------------------------------------
(* C27: middleware runs only around a selected route.  When a request ends *)
(* in a 413, in the 405 or in the NotFoundHandler, no middleware of any    *)
(* Router ran, whatever the Routers it went through have registered.       *)

---------------------------------------------------------------------------
(* C28: no aliasing from a subrouter to its parent.  A step that changes a *)
(* Router, be it Use, a registration of routes or Subrouter called on it,  *)
(* changes the middleware list, the route list and the NotFoundHandler of  *)
(* no other Router: not of its parent, not of the other subrouters of its  *)
(* parent.                                                                 *)

\* what of a Router the other Routers must leave alone
Registrations(R) ==
  [middleware |-> R.middleware, routes |-> R.routes,
   NotFoundHandler |-> R.NotFoundHandler]

C28_Step ==
  \A c \in DOMAIN routers :
    Registrations(routers'[c]) # Registrations(routers[c])
      \/ routers'[c].subrouters # routers[c].subrouters =>
        \A x \in DOMAIN routers \ {c} : Registrations(routers'[x]) = Registrations(routers[x])

C28_NoAliasing == [][C28_Step]_vars

\* a subrouter got middleware of its own; its parent and the other subrouter
\* of its parent have none
C28_Witness ==
  \E c1, c2 \in Children(routers, 0) :
    /\ c1 # c2
    /\ routers[c1].middleware # <<>>
    /\ routers[c2].middleware = <<>>
    /\ routers[0].middleware = <<>>

---------------------------------------------------------------------------
(* C29: the body limit of a Router covers the requests it delegates.  A    *)
(* request reaches the ServeHTTP of a subrouter only past the body-size    *)
(* guard of every Router above it: a request whose declared body length is *)
(* above the limit of one of them is answered there and handled by no      *)
(* Router below.  A subrouter is made with no limit of its own.            *)

\* the declared length of the request's body is above the limit of Router R
Exceeds(R) ==
  /\ R.MaxRequestBodySize > 0
  /\ resp.req.Body.has
  /\ resp.req.Body.len > R.MaxRequestBodySize

Covered ==
  resp.called =>
    \A n \in Hops :
      /\ \A j \in 1..(n - 1) : ~Exceeds(HopRouter(j))
      /\ Exceeds(HopRouter(n)) =>
           /\ n = Len(resp.out.chain)
           /\ resp.out.status = StatusRequestEntityTooLarge
           /\ resp.out.events = <<>>
           /\ resp.out.route = 0

C29_Step ==
  /\ Covered'
  /\ \A c \in DOMAIN routers' \ DOMAIN routers :
       routers'[c].MaxRequestBodySize = 0

---------------------------------------------------------------------------
(* C30: dispatch is deterministic where at most one subrouter of each      *)
(* Router can claim the request.  When, at every Router a request goes     *)
(* through, at most one subrouter key equals the Host or is a prefix of    *)
(* the path, dispatching the same method, host and path again ends in the  *)
(* same Router, with the same route and the same parameters.               *)

C30_DeterministicDispatch ==
  resp.called /\ (\A n \in Hops : Cardinality(Claimants(n)) <= 1) =>
    \A again \in ServeHTTP(routers, 0, resp.req) :
      /\ again.chain = resp.out.chain
      /\ again.route = resp.out.route
      /\ again.params = resp.out.params
      /\ again.status = resp.out.status

\* of the two subrouters of a Router one claims the request, and a route of
\* it with a token is selected
C30_Witness ==
  /\ resp.called
  /\ Len(resp.out.chain) = 2
  /\ Cardinality(DOMAIN routers[0].subrouters) = 2
  /\ Cardinality(Claimants(1)) = 1
  /\ resp.out.route # 0
  /\ resp.out.params # <<>>

====
